---- MODULE Spec2Model ----
(***************************************************************************)
(* Model of drivers/thermal/cpucore_cooling.c: the cpucore cooling device. *)
(*                                                                         *)
(* Spec      one caller driving one cooling device through the control     *)
(*           surface (register, set_cur_state, notify_state, unregister),  *)
(*           every callback run to completion before the next starts.      *)
(* LifeSpec  several callers running cpucore_cooling_register and          *)
(*           cpucore_cooling_unregister concurrently, one step per         *)
(*           statement, sharing cpucore_idr and cooling_cpucore_lock.      *)
(* CtlSpec   several callers running set_cur_state and notify_state        *)
(*           concurrently on one registered device, one step per shared    *)
(*           access.                                                       *)
(* FairSpec  the callers of CtlSpec and LifeSpec together, sharing the     *)
(*           mutex, under fair scheduling.                                 *)
(*                                                                         *)
(* Machine words are scaled down to WordBits bits: `unsigned long' is a    *)
(* WordBits-bit unsigned word (arithmetic modulo 2^WordBits), `int' and    *)
(* `long' are its two's-complement reading, CPU_STOP is the top bit.       *)
(***************************************************************************)
EXTENDS Integers, Sequences, FiniteSets, TLC

(* ------------------------------ bounds -------------------------------- *)
WordBits == 4        \* width of the scaled machine word
MaxCores == 3        \* num_possible_cpus() ranges over 1..MaxCores
MaxTrips == 2        \* tz->trips ranges over 0..MaxTrips
MaxCalls == 5        \* longest tracked run of notify(HOT, enter_hot) calls
NumCallers == 2      \* concurrent callers of register/unregister

(* --------------------------- machine words ---------------------------- *)
Pow2(n) == 2 ^ n

WordMod == Pow2(WordBits)

Words == 0 .. (WordMod - 1)

\* unsigned long subtraction a - b
USub(a, b) == (a - b) % WordMod

\* unsigned long addition a + b
UAdd(a, b) == (a + b) % WordMod

\* conversion of an unsigned long to int (two's complement)
ToInt(w) == IF w >= Pow2(WordBits - 1) THEN w - WordMod ELSE w

\* conversion of a long to unsigned long
ToULong(i) == i % WordMod

RECURSIVE BitAnd(_, _, _)
\* a & b over the n low bits
BitAnd(a, b, n) ==
    IF n = 0 THEN 0
    ELSE ((a % 2) * (b % 2)) + 2 * BitAnd(a \div 2, b \div 2, n - 1)

\* ~a in the word
BitNot(a) == (WordMod - 1) - a

\* the reserved stop bit of a requested state
CPU_STOP == Pow2(WordBits - 1)

(* ------------------------------ values -------------------------------- *)
NoCall == -1000      \* cpufreq_set_max_cpu_num was not called

NoIns == -2          \* get_thermal_instance() returned NULL for a trip

TripTypes == {"ACTIVE", "PASSIVE", "HOT", "CRITICAL"}

CoreCounts == 1 .. MaxCores

\* the upper bounds a bound thermal instance may declare
Uppers == 0 .. MaxCores

\* a thermal zone whose hot trip is asserting, as notify_state reads it:
\* tz->trips, tz->enter_hot and, for each trip, the instance binding this
\* cooling device (its upper, or NoIns)
Zones ==
    UNION { [trips : {n}, enter_hot : {TRUE},
             ins : [1 .. n -> Uppers \cup {NoIns}]] : n \in 0 .. MaxTrips }

\* a zone whose hot trip is clearing: its instances are not read
ClearZone == [trips |-> 0, enter_hot |-> FALSE, ins |-> << >>]

\* the zones a notification of the given trip type is modelled with: the
\* callback reads the zone for a hot trip only
ZonesFor(type) == IF type = "HOT" THEN Zones \cup {ClearZone} ELSE {ClearZone}

Callers == 1 .. NumCallers

VARIABLES
    num_possible_cpus,  \* the platform's core count
    registered,         \* the cooling device exists (cool_dev handed out)
    dev_id,             \* cpucore_dev->id
    max_cpu_core_num,   \* cpucore_dev->max_cpu_core_num
    cpucore_state,      \* cpucore_dev->cpucore_state
    stop_flag,          \* cpucore_dev->stop_flag
    last,               \* the most recent call: its inputs, the state it found
                        \* and what it did (observation only)
    hot_run,            \* notify(HOT, enter_hot, no bound) calls made on the
                        \* device since registration with no other call
                        \* in between (k), while that run is unbroken (tracked)
    cpucore_idr,        \* the ids outstanding in the idr
    cooling_cpucore_lock, \* 0 when free, else the caller holding the mutex
    pc,                 \* each concurrent caller's position
    rec,                \* each concurrent caller's cpucore_cooling_device
    call,               \* each concurrent caller's lifecycle call: the
                        \* function it runs or ran last (fn) and what that
                        \* returned (ret, "" while it runs)
    idr_last,           \* the latest operation on the idr: an allocation
                        \* (alloc), the release of the id allocated just
                        \* before (released), the allocation following
                        \* that (realloc), or anything else (none)
    frame,              \* each concurrent caller's control-surface call:
                        \* where it is (at), the callback (fn), its local
                        \* `state', whether the request carried CPU_STOP
                        \* (stop), whether it began after a call carrying
                        \* CPU_STOP had returned (late)
    max_cpu_num,        \* the argument of the latest
                        \* cpufreq_set_max_cpu_num call, NoCall if none
    hist                \* what happened so far (observation only)

ctlvars == <<num_possible_cpus, registered, dev_id, max_cpu_core_num,
             cpucore_state, stop_flag, last, hot_run>>

lifevars == <<cooling_cpucore_lock, pc, rec, call, idr_last>>

concvars == <<frame, max_cpu_num, hist>>

vars == <<num_possible_cpus, registered, dev_id, max_cpu_core_num,
          cpucore_state, stop_flag, last, hot_run, cpucore_idr,
          cooling_cpucore_lock, pc, rec, call, idr_last,
          frame, max_cpu_num, hist>>

(* ------------------- cpucore_set_cur_state, in parts ------------------ *)
\* (state & CPU_STOP) == CPU_STOP
StopRequested(state) == BitAnd(state, CPU_STOP, WordBits) = CPU_STOP

\* variant: the flag is left in the working value
StripStop_kept(state) == state

\* state & (~CPU_STOP)
StripStop(state) == BitAnd(state, BitNot(CPU_STOP), WordBits)

\* variant: the test is >= 0
Accepts_ge(max, state) == USub(max, state) >= 0

\* cpucore_device->max_cpu_core_num - state > 0, state being unsigned long
Accepts(max, state) == USub(max, state) > 0

\* variant: the actuator is handed the level itself
SetMaxNum_level(max, state) == ToInt(state)

\* set_max_num = cpucore_device->max_cpu_core_num - state, an int
SetMaxNum(max, state) == ToInt(USub(max, state))

\* the value the callback works with after the latch section
WorkingState(state) == IF StopRequested(state) THEN StripStop(state) ELSE state

\* variant: the latch is never honoured
Latched_never(stop) == FALSE

\* if (cpucore_device->stop_flag)
Latched(stop) == stop # 0

\* cpucore_set_cur_state on a device [max, cur, stop] run to completion:
\* the fields it leaves and the actuation it requests
SetCurStateResult(max, cur, stop, state) ==
    IF Latched(stop)
    THEN [cur |-> cur, stop |-> stop, actuated |-> FALSE, set_max_num |-> NoCall]
    ELSE LET st == WorkingState(state)
             sf == IF StopRequested(state) THEN 1 ELSE stop
         IN  IF Accepts(max, st)
             THEN [cur |-> st, stop |-> sf, actuated |-> TRUE,
                   set_max_num |-> SetMaxNum(max, st)]
             ELSE [cur |-> cur, stop |-> sf, actuated |-> FALSE,
                   set_max_num |-> NoCall]

\* cpucore_get_cur_state / cpucore_get_max_state
GetCurState == cpucore_state

GetMaxState == max_cpu_core_num

(* -------------------- cpucore_notify_state, in parts ------------------ *)
\* ins->upper > upper
UpperExceeds(u, upper) == u > upper

RECURSIVE ScanUpper(_, _, _)
\* for (i = 0; i < tz->trips; i++) { ins = ...; if (ins && ...) upper = ... }
\* from trip i (1-based here) on, with the running maximum upper
ScanUpper(tz, i, upper) ==
    IF i > tz.trips THEN upper
    ELSE LET u == tz.ins[i]
         IN  ScanUpper(tz, i + 1,
                       IF u # NoIns /\ UpperExceeds(u, upper) THEN u ELSE upper)

\* variant: the level is not incremented
NotifyTarget_same(cur, upper) == cur

\* variant: the incremented level is not clamped
NotifyTarget_unclamped(cur, upper) == UAdd(cur, 1)

\* cur_state += 1; if (upper != -1 && cur_state > upper) cur_state = upper;
NotifyTarget(cur, upper) ==
    LET inc == UAdd(cur, 1)
    IN  IF upper # -1 /\ inc > ToULong(upper) THEN ToULong(upper) ELSE inc

\* whether notify_state calls set_cur_state, and with what
NotifyCalls(type) == type = "HOT"

\* variant: a clearing trip hands the current level on
NotifyHanded_keep(tz, cur) ==
    IF tz.enter_hot THEN NotifyTarget(cur, ScanUpper(tz, 1, -1)) ELSE cur

NotifyHanded(tz, cur) ==
    IF tz.enter_hot THEN NotifyTarget(cur, ScanUpper(tz, 1, -1)) ELSE 0

(* ------------------------------ the idr ------------------------------- *)
\* idr_alloc(idr, NULL, 0, 0, GFP_KERNEL): the lowest id not outstanding
IdrAlloc(idr) == CHOOSE i \in 0 .. Cardinality(idr) : i \notin idr /\
                     \A j \in 0 .. (i - 1) : j \in idr

\* the error idr_alloc returns when it cannot allocate
IdrError == -12

\* idr_remove(idr, id)
IdrRemove(idr, id) == idr \ {id}

(* --------------------- observation of the last call ------------------- *)
NoZone == ClearZone

\* the upper bounds of the instances bound on a zone
BoundUppers(tz) == { tz.ins[i] : i \in 1 .. tz.trips } \ {NoIns}

\* the largest and the smallest of them, NoIns when no instance is bound
LargestUpper(tz) ==
    IF BoundUppers(tz) = {} THEN NoIns
    ELSE CHOOSE m \in BoundUppers(tz) : \A x \in BoundUppers(tz) : x <= m

SmallestUpper(tz) ==
    IF BoundUppers(tz) = {} THEN NoIns
    ELSE CHOOSE m \in BoundUppers(tz) : \A x \in BoundUppers(tz) : m <= x

\* what is kept of a call: its inputs (of the zone: enter_hot and the
\* extreme uppers bound on it), the fields it found, and what it did
Observed(op, state, type, tz, handed, res) ==
    [op |-> op, state |-> state, type |-> type, enter_hot |-> tz.enter_hot,
     upper_max |-> LargestUpper(tz), upper_min |-> SmallestUpper(tz),
     handed |-> handed,
     pre_state |-> cpucore_state, pre_stop |-> stop_flag,
     actuated |-> res.actuated, set_max_num |-> res.set_max_num]

NoEffect == [cur |-> cpucore_state, stop |-> stop_flag, actuated |-> FALSE,
             set_max_num |-> NoCall]

FreshRun == [tracked |-> TRUE, k |-> 0]

BrokenRun == [tracked |-> FALSE, k |-> 0]

(* --------------------------- the records ------------------------------ *)
\* variant: the record is not zero-filled (kmalloc)
ZeroRec_dirty == [alloc |-> TRUE, id |-> 0, ret |-> 0, max_cpu_core_num |-> 0,
                  cpucore_state |-> 1, stop_flag |-> 1, cool_dev |-> FALSE]

\* kzalloc: a zero-filled record
ZeroRec == [alloc |-> TRUE, id |-> 0, ret |-> 0, max_cpu_core_num |-> 0,
            cpucore_state |-> 0, stop_flag |-> 0, cool_dev |-> FALSE]

\* no record (never allocated, or freed)
FreedRec == [alloc |-> FALSE, id |-> 0, ret |-> 0, max_cpu_core_num |-> 0,
             cpucore_state |-> 0, stop_flag |-> 0, cool_dev |-> FALSE]

NoCallYet == [fn |-> "none", ret |-> ""]

NoIdrOp == [op |-> "none", id |-> 0]

\* a caller that is in no control-surface call
HomeFrame == [at |-> "home", fn |-> "none", state |-> 0, stop |-> FALSE,
              late |-> FALSE]

\* the history, kept (on) or not: a call carrying CPU_STOP has returned
\* (stop_returned); a call began while another was in flight (overlap);
\* so far only notify(HOT, enter_hot, no bound) calls were made (pure),
\* k of them; how many calls found the latch clear and set it (latch_sets)
HistOn == [on |-> TRUE, stop_returned |-> FALSE, overlap |-> FALSE,
           pure |-> TRUE, k |-> 0, latch_sets |-> 0]

HistOff == [HistOn EXCEPT !.on = FALSE]

(* ============ Spec: one caller, callbacks run to completion =========== *)
LifeIdle ==
    /\ cooling_cpucore_lock = 0
    /\ pc = [t \in Callers |-> "idle"]
    /\ rec = [t \in Callers |-> FreedRec]
    /\ call = [t \in Callers |-> NoCallYet]
    /\ idr_last = NoIdrOp
    /\ frame = [t \in Callers |-> HomeFrame]
    /\ max_cpu_num = NoCall

Init ==
    /\ num_possible_cpus \in CoreCounts
    /\ registered = FALSE
    /\ dev_id = 0
    /\ max_cpu_core_num = 0
    /\ cpucore_state = 0
    /\ stop_flag = 0
    /\ last = Observed("none", 0, "HOT", NoZone, FALSE, NoEffect)
    /\ hot_run = BrokenRun
    /\ cpucore_idr = {}
    /\ LifeIdle
    /\ hist = HistOn

\* cpucore_cooling_register: kzalloc, get_idr, max_cpu_core_num, the thermal
\* core's registration; outcome is where it fails, or "OK"
Register(outcome) ==
    /\ ~registered
    /\ IF outcome = "OK"
       THEN /\ registered' = TRUE
            /\ dev_id' = IdrAlloc(cpucore_idr)
            /\ cpucore_idr' = cpucore_idr \cup {IdrAlloc(cpucore_idr)}
            /\ max_cpu_core_num' = num_possible_cpus
            /\ cpucore_state' = 0
            /\ stop_flag' = ZeroRec.stop_flag
            /\ hot_run' = FreshRun
       ELSE \* ENOMEM: no record; EIDR: record freed; EBIND: id released too
            /\ UNCHANGED <<registered, dev_id, cpucore_idr, max_cpu_core_num,
                           cpucore_state, stop_flag, hot_run>>
    /\ last' = Observed("register", 0, "HOT", NoZone, FALSE, NoEffect)
    /\ UNCHANGED <<num_possible_cpus, lifevars, concvars>>

\* cpucore_cooling_unregister(cdev) on the live handle
Unregister ==
    /\ registered
    /\ registered' = FALSE
    /\ cpucore_idr' = IdrRemove(cpucore_idr, dev_id)
    /\ dev_id' = 0
    /\ max_cpu_core_num' = 0
    /\ cpucore_state' = 0
    /\ stop_flag' = 0
    /\ hot_run' = BrokenRun
    /\ last' = Observed("unregister", 0, "HOT", NoZone, FALSE, NoEffect)
    /\ UNCHANGED <<num_possible_cpus, lifevars, concvars>>

\* cpucore_cooling_unregister(NULL)
UnregisterNull ==
    /\ last' = Observed("unregister_null", 0, "HOT", NoZone, FALSE, NoEffect)
    /\ UNCHANGED <<num_possible_cpus, registered, dev_id, max_cpu_core_num,
                   cpucore_state, stop_flag, hot_run, cpucore_idr, lifevars, concvars>>

\* cdev->ops->set_cur_state(cdev, state) called by the governor
SetCurState(state) ==
    /\ registered
    /\ LET res == SetCurStateResult(max_cpu_core_num, cpucore_state,
                                    stop_flag, state)
       IN  /\ cpucore_state' = res.cur
           /\ stop_flag' = res.stop
           /\ last' = Observed("set_cur_state", state, "HOT", NoZone, TRUE, res)
    /\ hot_run' = BrokenRun
    /\ UNCHANGED <<num_possible_cpus, registered, dev_id, max_cpu_core_num,
                   cpucore_idr, lifevars, concvars>>

\* cdev->ops->notify_state(cdev, tz, type)
NotifyState(tz, type) ==
    /\ registered
    /\ IF NotifyCalls(type)
       THEN LET handed == NotifyHanded(tz, GetCurState)
                res == SetCurStateResult(max_cpu_core_num, cpucore_state,
                                         stop_flag, handed)
            IN  /\ cpucore_state' = res.cur
                /\ stop_flag' = res.stop
                /\ last' = Observed("notify", handed, type, tz, TRUE, res)
       ELSE /\ UNCHANGED <<cpucore_state, stop_flag>>
            /\ last' = Observed("notify", 0, type, tz, FALSE, NoEffect)
    /\ hot_run' =
          IF /\ type = "HOT" /\ tz.enter_hot /\ hot_run.tracked
             /\ hot_run.k < MaxCalls
             /\ \A i \in 1 .. tz.trips : tz.ins[i] = NoIns
          THEN [tracked |-> TRUE, k |-> hot_run.k + 1]
          ELSE BrokenRun
    /\ UNCHANGED <<num_possible_cpus, registered, dev_id, max_cpu_core_num,
                   cpucore_idr, lifevars, concvars>>

Next ==
    \/ \E outcome \in {"OK", "ENOMEM", "EIDR", "EBIND"} : Register(outcome)
    \/ Unregister
    \/ UnregisterNull
    \/ \E state \in Words : SetCurState(state)
    \/ \E type \in TripTypes : \E tz \in ZonesFor(type) : NotifyState(tz, type)

Spec == Init /\ [][Next]_vars

(* ====== LifeSpec: concurrent register / unregister, step by step ====== *)
\* variant: release_idr is called with id 0
ReleasedId_zero(r) == 0

\* the id release_idr is called with: cpucore_dev->id
ReleasedId(r) == r.id

Goto(t, label) == pc' = [pc EXCEPT ![t] = label]

\* the lifecycle function a caller is in, and what a finished one returned
Calling(t, fn) ==
    call' = IF hist.on THEN [call EXCEPT ![t] = [fn |-> fn, ret |-> ""]]
            ELSE call

Returned(t, ret) ==
    call' = IF hist.on THEN [call EXCEPT ![t].ret = ret] ELSE call

\* a call that returned at once
CalledAndReturned(t, fn, ret) ==
    call' = IF hist.on THEN [call EXCEPT ![t] = [fn |-> fn, ret |-> ret]]
            ELSE call

\* the latest operation on the idr
IdrOp(op) == idr_last' = IF hist.on THEN op ELSE idr_last

\* variant: the mutex is taken whether it is held or not
MutexFree_always(lock) == TRUE

\* mutex_lock(&cooling_cpucore_lock) proceeds when nobody holds the mutex
MutexFree(lock) == lock = 0

\* variant: the id is not released when the binding fails
BindFailNext_leak == "kfree"

\* register, if (!cool_dev): release_idr(...) comes next
BindFailNext == "rel_lock"

\* variant: the framework device is left registered
UnbindFirst_skipped(r) == r

\* unregister: thermal_cooling_device_unregister(cpucore_dev->cool_dev)
UnbindFirst(r) == [r EXCEPT !.cool_dev = FALSE]

\* register: cpucore_dev = kzalloc(...); if (!cpucore_dev) return ERR_PTR
RegKzalloc(t, ok) ==
    /\ pc[t] = "idle"
    /\ frame[t].at = "home"
    /\ IF ok
       THEN /\ rec' = [rec EXCEPT ![t] = ZeroRec]
            /\ Goto(t, "get_lock")
            /\ Calling(t, "register")
       ELSE /\ UNCHANGED <<rec, pc>>
            /\ CalledAndReturned(t, "register", "ERR_PTR")
    /\ UNCHANGED <<ctlvars, concvars, cpucore_idr, cooling_cpucore_lock, idr_last>>

\* get_idr: mutex_lock(&cooling_cpucore_lock)
GetIdrLock(t) ==
    /\ pc[t] = "get_lock"
    /\ MutexFree(cooling_cpucore_lock)
    /\ cooling_cpucore_lock' = t
    /\ Goto(t, "get_alloc")
    /\ UNCHANGED <<ctlvars, concvars, cpucore_idr, rec, call, idr_last>>

\* get_idr: ret = idr_alloc(idr, NULL, 0, 0, GFP_KERNEL)
GetIdrAlloc(t, ok) ==
    /\ pc[t] = "get_alloc"
    /\ IF ok
       THEN /\ rec' = [rec EXCEPT ![t].ret = IdrAlloc(cpucore_idr)]
            /\ cpucore_idr' = cpucore_idr \cup {IdrAlloc(cpucore_idr)}
            /\ IdrOp([op |-> IF idr_last.op = "released"
                               THEN "realloc" ELSE "alloc",
                        id |-> IdrAlloc(cpucore_idr)])
       ELSE /\ rec' = [rec EXCEPT ![t].ret = IdrError]
            /\ IdrOp(NoIdrOp)
            /\ UNCHANGED cpucore_idr
    /\ Goto(t, "get_unlock")
    /\ UNCHANGED <<ctlvars, concvars, cooling_cpucore_lock, call>>

\* get_idr: mutex_unlock; if (ret < 0) return ret; *id = ret; return 0;
\* register: if (ret) { kfree; return ERR_PTR } else max_cpu_core_num = ...
GetIdrUnlock(t) ==
    /\ pc[t] = "get_unlock"
    /\ cooling_cpucore_lock' = 0
    /\ IF rec[t].ret < 0
       THEN /\ UNCHANGED rec
            /\ Goto(t, "kfree")
       ELSE /\ rec' = [rec EXCEPT ![t].id = rec[t].ret,
                                  ![t].max_cpu_core_num = num_possible_cpus]
            /\ Goto(t, "bind")
    /\ UNCHANGED <<ctlvars, concvars, cpucore_idr, call, idr_last>>

\* register: cool_dev = thermal_of_cooling_device_register(...);
\* if (!cool_dev) release_idr ... else cool_dev, cpucore_state = 0, return
RegBind(t, ok) ==
    /\ pc[t] = "bind"
    /\ IF ok
       THEN /\ rec' = [rec EXCEPT ![t].cool_dev = TRUE, ![t].cpucore_state = 0]
            /\ Goto(t, "live")
            /\ Returned(t, "cool_dev")
       ELSE /\ UNCHANGED <<rec, call>>
            /\ Goto(t, BindFailNext)
    /\ UNCHANGED <<ctlvars, concvars, cpucore_idr, cooling_cpucore_lock, idr_last>>

\* unregister: if (!cdev) return;
UnregNull(t) ==
    /\ pc[t] \in {"idle", "live"}
    /\ frame[t].at = "home"
    /\ CalledAndReturned(t, "unregister_null", "void")
    /\ UNCHANGED <<ctlvars, concvars, cpucore_idr, cooling_cpucore_lock, pc, rec,
                   idr_last>>

\* unregister: thermal_cooling_device_unregister(cpucore_dev->cool_dev)
UnregUnbind(t) ==
    /\ pc[t] = "live"
    /\ frame[t].at = "home"
    /\ rec' = [rec EXCEPT ![t] = UnbindFirst(rec[t])]
    /\ Goto(t, "rel_lock")
    /\ Calling(t, "unregister")
    /\ UNCHANGED <<ctlvars, concvars, cpucore_idr, cooling_cpucore_lock, idr_last>>

\* release_idr: mutex_lock(&cooling_cpucore_lock)
RelIdrLock(t) ==
    /\ pc[t] = "rel_lock"
    /\ MutexFree(cooling_cpucore_lock)
    /\ cooling_cpucore_lock' = t
    /\ Goto(t, "rel_remove")
    /\ UNCHANGED <<ctlvars, concvars, cpucore_idr, rec, call, idr_last>>

\* release_idr: idr_remove(idr, id)
RelIdrRemove(t) ==
    /\ pc[t] = "rel_remove"
    /\ cpucore_idr' = IdrRemove(cpucore_idr, ReleasedId(rec[t]))
    /\ IdrOp(IF idr_last.op \in {"alloc", "realloc"}
                /\ idr_last.id = rec[t].id
             THEN [op |-> "released", id |-> rec[t].id]
             ELSE NoIdrOp)
    /\ Goto(t, "rel_unlock")
    /\ UNCHANGED <<ctlvars, concvars, cooling_cpucore_lock, rec, call>>

\* release_idr: mutex_unlock(&cooling_cpucore_lock)
RelIdrUnlock(t) ==
    /\ pc[t] = "rel_unlock"
    /\ cooling_cpucore_lock' = 0
    /\ Goto(t, "kfree")
    /\ UNCHANGED <<ctlvars, concvars, cpucore_idr, rec, call, idr_last>>

\* kfree(cpucore_dev); return ERR_PTR(-EINVAL) from register, return from
\* unregister
Kfree(t) ==
    /\ pc[t] = "kfree"
    /\ rec' = [rec EXCEPT ![t] = FreedRec]
    /\ Goto(t, "idle")
    /\ Returned(t, IF call[t].fn = "register" THEN "ERR_PTR" ELSE "void")
    /\ UNCHANGED <<ctlvars, concvars, cpucore_idr, cooling_cpucore_lock, idr_last>>

LifeNext ==
    \E t \in Callers :
        \/ \E ok \in BOOLEAN : RegKzalloc(t, ok)
        \/ GetIdrLock(t)
        \/ \E ok \in BOOLEAN : GetIdrAlloc(t, ok)
        \/ GetIdrUnlock(t)
        \/ \E ok \in BOOLEAN : RegBind(t, ok)
        \/ UnregNull(t)
        \/ UnregUnbind(t)
        \/ RelIdrLock(t)
        \/ RelIdrRemove(t)
        \/ RelIdrUnlock(t)
        \/ Kfree(t)

LifeSpec == Init /\ [][LifeNext]_vars

(* ==== CtlSpec: concurrent set_cur_state / notify_state, step by step === *)
\* the states the governor requests: the levels around max_cpu_core_num,
\* without and with CPU_STOP
Requests == (0 .. (MaxCores + 1)) \cup {CPU_STOP, CPU_STOP + 1}

InFlight(t) == frame[t].at # "home"

\* the caller is in no call of this driver
AtHome(t) == frame[t].at = "home" /\ pc[t] \in {"idle", "live"}

At(t, label) == frame' = [frame EXCEPT ![t].at = label]

Track(h) == hist' = IF hist.on THEN h ELSE hist

\* a call begins: entry of cpucore_set_cur_state(cdev, state)
Enter(t, fn, state, pure) ==
    /\ frame' = [frame EXCEPT ![t] =
                    [at |-> "lock", fn |-> fn, state |-> state,
                     stop |-> StopRequested(state),
                     late |-> hist.stop_returned]]
    /\ LET p == hist.pure /\ pure /\ hist.k < MaxCalls
       IN  Track([hist EXCEPT
                    !.overlap = @ \/ \E u \in Callers \ {t} : InFlight(u),
                    !.pure = p,
                    !.k = IF p THEN @ + 1 ELSE 0])

\* a call returns
Leave(t) ==
    /\ frame' = [frame EXCEPT ![t] = HomeFrame]
    /\ Track([hist EXCEPT !.stop_returned = @ \/ frame[t].stop])

\* variant: the early return leaves the mutex held
EarlyUnlock_skipped(lock) == lock

\* if (stop_flag) { mutex_unlock(&cooling_cpucore_lock); return 0; }
EarlyUnlock(lock) == 0

\* a device just registered, no call in flight
FreshDevice ==
    /\ num_possible_cpus \in CoreCounts
    /\ registered = TRUE
    /\ dev_id = 0
    /\ cpucore_idr = {0}
    /\ max_cpu_core_num = num_possible_cpus
    /\ cpucore_state = 0
    /\ stop_flag = 0
    /\ hot_run = FreshRun
    /\ last = Observed("register", 0, "HOT", NoZone, FALSE, NoEffect)
    /\ LifeIdle

CtlInit == FreshDevice /\ hist = HistOn

\* the governor calls cdev->ops->set_cur_state(cdev, state)
CtlSetCurState(t, state) ==
    /\ registered
    /\ AtHome(t)
    /\ Enter(t, "set_cur_state", state, FALSE)
    /\ UNCHANGED <<ctlvars, cpucore_idr, lifevars, max_cpu_num>>

\* the governor calls cdev->ops->notify_state(cdev, tz, type): the scan of
\* the zone, get_cur_state, the increment and the clamp, up to the call of
\* set_cur_state
CtlNotify(t, tz, type) ==
    /\ registered
    /\ AtHome(t)
    /\ IF NotifyCalls(type)
       THEN Enter(t, "notify", NotifyHanded(tz, GetCurState),
                  tz.enter_hot /\ BoundUppers(tz) = {})
       ELSE /\ UNCHANGED frame
            /\ Track([hist EXCEPT !.pure = FALSE, !.k = 0])
    /\ UNCHANGED <<ctlvars, cpucore_idr, lifevars, max_cpu_num>>

\* set_cur_state: mutex_lock(&cooling_cpucore_lock)
CtlLock(t) ==
    /\ frame[t].at = "lock"
    /\ MutexFree(cooling_cpucore_lock)
    /\ cooling_cpucore_lock' = t
    /\ At(t, "check")
    /\ UNCHANGED <<ctlvars, cpucore_idr, pc, rec, call, idr_last,
                   max_cpu_num, hist>>

\* set_cur_state: if (stop_flag) ...; if ((state & CPU_STOP) == CPU_STOP)
CtlCheck(t) ==
    /\ frame[t].at = "check"
    /\ IF Latched(stop_flag)
       THEN At(t, "unlock_ret")
       ELSE IF StopRequested(frame[t].state)
            THEN At(t, "set")
            ELSE At(t, "unlock")
    /\ UNCHANGED <<ctlvars, cpucore_idr, lifevars, max_cpu_num, hist>>

\* set_cur_state: stop_flag = 1; state = state & (~CPU_STOP);
CtlSet(t) ==
    /\ frame[t].at = "set"
    /\ stop_flag' = 1
    /\ frame' = [frame EXCEPT ![t].at = "unlock",
                              ![t].state = StripStop(frame[t].state)]
    /\ Track([hist EXCEPT !.latch_sets = IF @ < 2 THEN @ + 1 ELSE @])
    /\ UNCHANGED <<num_possible_cpus, registered, dev_id, max_cpu_core_num,
                   cpucore_state, last, hot_run, cpucore_idr, lifevars,
                   max_cpu_num>>

\* set_cur_state: mutex_unlock(&cooling_cpucore_lock), latch not set before
CtlUnlock(t) ==
    /\ frame[t].at = "unlock"
    /\ cooling_cpucore_lock' = 0
    /\ At(t, "commit")
    /\ UNCHANGED <<ctlvars, cpucore_idr, pc, rec, call, idr_last,
                   max_cpu_num, hist>>

\* set_cur_state: mutex_unlock(&cooling_cpucore_lock); return 0;
CtlUnlockRet(t) ==
    /\ frame[t].at = "unlock_ret"
    /\ cooling_cpucore_lock' = EarlyUnlock(cooling_cpucore_lock)
    /\ Leave(t)
    /\ UNCHANGED <<ctlvars, cpucore_idr, pc, rec, call, idr_last,
                   max_cpu_num>>

\* set_cur_state: if (max_cpu_core_num - state > 0) cpucore_state = state;
\* else return 0;
CtlCommit(t) ==
    /\ frame[t].at = "commit"
    /\ IF Accepts(max_cpu_core_num, frame[t].state)
       THEN /\ cpucore_state' = frame[t].state
            /\ At(t, "actuate")
            /\ UNCHANGED hist
       ELSE /\ UNCHANGED cpucore_state
            /\ Leave(t)
    /\ UNCHANGED <<num_possible_cpus, registered, dev_id, max_cpu_core_num,
                   stop_flag, last, hot_run, cpucore_idr, lifevars,
                   max_cpu_num>>

\* set_cur_state: set_max_num = max_cpu_core_num - state;
\* cpufreq_set_max_cpu_num(set_max_num); return 0;
CtlActuate(t) ==
    /\ frame[t].at = "actuate"
    /\ max_cpu_num' = SetMaxNum(max_cpu_core_num, frame[t].state)
    /\ Leave(t)
    /\ UNCHANGED <<ctlvars, cpucore_idr, lifevars>>

CtlNext ==
    \E t \in Callers :
        \/ \E state \in Requests : CtlSetCurState(t, state)
        \/ \E type \in TripTypes : \E tz \in ZonesFor(type) :
              CtlNotify(t, tz, type)
        \/ CtlLock(t)
        \/ CtlCheck(t)
        \/ CtlSet(t)
        \/ CtlUnlock(t)
        \/ CtlUnlockRet(t)
        \/ CtlCommit(t)
        \/ CtlActuate(t)

CtlSpec == CtlInit /\ [][CtlNext]_vars

(* ====== FairSpec: all calls of the driver, under fair scheduling ====== *)
FairInit == FreshDevice /\ hist = HistOff

\* the steps of a call in flight that wait for nothing
Proceed(t) ==
    \/ CtlCheck(t)
    \/ CtlSet(t)
    \/ CtlUnlock(t)
    \/ CtlUnlockRet(t)
    \/ CtlCommit(t)
    \/ CtlActuate(t)
    \/ \E ok \in BOOLEAN : GetIdrAlloc(t, ok)
    \/ GetIdrUnlock(t)
    \/ \E ok \in BOOLEAN : RegBind(t, ok)
    \/ RelIdrRemove(t)
    \/ RelIdrUnlock(t)
    \/ Kfree(t)

\* mutex_lock(&cooling_cpucore_lock), wherever it is called
Acquire(t) == CtlLock(t) \/ GetIdrLock(t) \/ RelIdrLock(t)

\* the requests and zones the callers are driven with: a level, the stop
\* flag, a hot trip asserting with no bound, a hot trip clearing
FairRequests == {1, CPU_STOP}

FairZones == {[trips |-> 0, enter_hot |-> TRUE, ins |-> << >>], ClearZone}

FairCalls ==
    \E t \in Callers :
        \/ \E state \in FairRequests : CtlSetCurState(t, state)
        \/ \E tz \in FairZones : CtlNotify(t, tz, "HOT")
        \/ Acquire(t)
        \/ Proceed(t)
        \/ \E ok \in BOOLEAN : RegKzalloc(t, ok)
        \/ UnregNull(t)
        \/ UnregUnbind(t)

FairNext == FairCalls

\* a caller in flight keeps running, and a caller waiting for the mutex gets
\* it if it is free again and again
FairSpec ==
    /\ FairInit
    /\ [][FairNext]_vars
    /\ \A t \in Callers : WF_vars(Proceed(t)) /\ SF_vars(Acquire(t))

(* ============================== claims ================================ *)
Min(a, b) == IF a <= b THEN a ELSE b

LastSet == registered /\ last.op = "set_cur_state"

LastNotifyHot == registered /\ last.op = "notify" /\ last.type = "HOT"

\* C1 (as stated): with the latch clear, set_cur_state(requested) without the
\* stop flag and with requested >= max_throttle leaves get_cur_state
\* unchanged and requests no actuation.
C1_SaturatedRequestDropped ==
    (LastSet /\ last.pre_stop = 0 /\ last.state < CPU_STOP
        /\ last.state >= GetMaxState)
    => (GetCurState = last.pre_state /\ ~last.actuated)

\* C2 (as stated): on a registered record, after any sequence of
\* set_cur_state and notify calls, 0 <= current_throttle < max_throttle.
C2_LevelBelowMax ==
    registered => (0 <= GetCurState /\ GetCurState < GetMaxState)

\* C3: processing a set_cur_state call that carries the stop flag leaves the
\* latch set, the latch is never cleared while the record lives, and every
\* set_cur_state call made with the latch set leaves get_cur_state unchanged
\* and requests no actuation.
C3_StoppedSetIsNoOp ==
    [][ (registered /\ registered') =>
          /\ (last'.op = "set_cur_state" /\ last'.state >= CPU_STOP)
                => stop_flag' = 1
          /\ stop_flag = 1 => stop_flag' = 1
          /\ (stop_flag = 1 /\ last'.op = "set_cur_state")
                => (GetCurState' = GetCurState /\ ~last'.actuated) ]_vars

\* C3 witness: a set_cur_state call for another, in-range level with or
\* without the flag arrived after the latch was set.
C3_Witness ==
    /\ LastSet /\ last.pre_stop = 1
    /\ last.state % CPU_STOP # last.pre_state
    /\ last.state % CPU_STOP < GetMaxState

\* C4 (as stated): notify(HOT) with enter_hot = false leaves get_cur_state
\* at 0 for every prior level and either value of the stop latch.
C4_ClearAlwaysResets ==
    (LastNotifyHot /\ ~last.enter_hot) => GetCurState = 0

\* C4 (amended): notify(HOT) with enter_hot = false leaves get_cur_state at 0
\* for every prior level when the stop latch is clear, and leaves the level
\* as it was when the stop latch is set.
C4_ClearResetsUnlessStopped ==
    (LastNotifyHot /\ ~last.enter_hot) =>
        /\ last.pre_stop = 0 => (GetCurState = 0 /\ last.actuated
                                  /\ last.set_max_num = GetMaxState)
        /\ last.pre_stop = 1 => GetCurState = last.pre_state

\* C4 witness: a clearing trip reset a non-zero level.
C4_Witness ==
    /\ LastNotifyHot /\ ~last.enter_hot
    /\ last.pre_stop = 0 /\ last.pre_state > 0 /\ GetCurState = 0

\* C5: with the stop latch set, a notify call (any trip type, asserting or
\* clearing) changes neither current_throttle nor requests an actuation.
C5_StoppedNotifyIsNoOp ==
    (registered /\ last.op = "notify" /\ last.pre_stop = 1)
    => (GetCurState = last.pre_state /\ stop_flag = 1 /\ ~last.actuated)

\* C5 witness: a hot trip handed an in-range level other than the current
\* one to the commit path of a stopped device.
C5_Witness ==
    /\ LastNotifyHot /\ last.pre_stop = 1 /\ last.handed
    /\ last.state # last.pre_state /\ last.state < GetMaxState

\* C6: k notify(HOT, enter_hot) calls with no bound instance, made on a
\* freshly registered record with nothing in between, leave get_cur_state
\* at min(k, N - 1); the level never reaches N.
C6_RatchetSaturates ==
    (registered /\ hot_run.tracked) =>
        /\ GetCurState = Min(hot_run.k, GetMaxState - 1)
        /\ GetCurState < GetMaxState
        /\ stop_flag = 0

\* C6 witness: more asserting trips than there are levels.
C6_Witness ==
    /\ registered /\ hot_run.tracked
    /\ GetMaxState >= 2 /\ hot_run.k > GetMaxState

C8_ActuationKeepsACore ==
    (registered /\ last.actuated) =>
        /\ last.set_max_num = GetMaxState - GetCurState
        /\ 1 <= last.set_max_num
        /\ last.set_max_num <= GetMaxState

\* C9: set_cur_state(STOP_FLAG | v) with v < max_throttle on a record whose
\* latch is clear sets the latch, commits v, requests max_throttle - v
\* active cores; get_cur_state returns v, without the flag bit.
C9_StopCommitsStripped ==
    (LastSet /\ last.pre_stop = 0 /\ last.state >= CPU_STOP
        /\ last.state - CPU_STOP < GetMaxState)
    => /\ stop_flag = 1
       /\ GetCurState = last.state - CPU_STOP
       /\ GetCurState < CPU_STOP
       /\ last.actuated
       /\ last.set_max_num = GetMaxState - (last.state - CPU_STOP)

\* C9 witness: a stop request for a level other than the current one.
C9_Witness ==
    /\ LastSet /\ last.pre_stop = 0 /\ last.state >= CPU_STOP
    /\ last.state - CPU_STOP < GetMaxState
    /\ last.state - CPU_STOP # last.pre_state
    /\ stop_flag = 1

\* a caller's record holds an id: get_idr stored it, release_idr has not
\* removed it yet
HoldsId(t) == pc[t] \in {"bind", "live", "rel_lock", "rel_remove"}

\* idr_alloc returned an id to the caller that get_idr has not stored yet
PendingId(t) == pc[t] = "get_unlock" /\ rec[t].ret >= 0

\* the id a caller owns, held or pending
OwnedId(t) == IF PendingId(t) THEN rec[t].ret ELSE rec[t].id

\* C10: under any interleaving of register and unregister calls, no two
\* records hold the same id at once, and every id a record holds is
\* outstanding in the allocator, so it is handed out again only after
\* release_idr has removed it.
C10_LiveIdsDistinct ==
    \A t \in Callers :
        (HoldsId(t) \/ PendingId(t)) =>
            /\ OwnedId(t) \in cpucore_idr
            /\ \A u \in Callers \ {t} :
                   (HoldsId(u) \/ PendingId(u)) => OwnedId(u) # OwnedId(t)

\* C10 witness: one caller's device is live with id 1 while the other caller,
\* whose earlier record held id 0 and released it, is handed id 0 again.
C10_Witness ==
    \E t \in Callers, u \in Callers :
        /\ t # u
        /\ pc[t] = "live" /\ rec[t].id = 1
        /\ PendingId(u) /\ rec[u].ret = 0
        /\ cpucore_idr = {0, 1}

OwnedIds == { OwnedId(t) : t \in { u \in Callers : HoldsId(u) \/ PendingId(u) } }

\* C11: the allocator returns the smallest non-negative integer not
\* outstanding; and an allocation that directly follows the release of the
\* id allocated just before returns that id again.
C11_SmallestFreeId ==
    [][ \A t \in Callers :
          (pc[t] = "get_alloc" /\ pc'[t] = "get_unlock" /\ rec'[t].ret >= 0)
          => /\ rec'[t].ret \notin cpucore_idr
             /\ \A j \in 0 .. (rec'[t].ret - 1) : j \in cpucore_idr
             /\ cpucore_idr' = cpucore_idr \cup {rec'[t].ret}
             /\ idr_last.op = "released" => rec'[t].ret = idr_last.id ]_vars

\* C11 witness: id 1 was allocated, released and allocated again with no
\* other operation on the idr in between, id 0 being outstanding.
C11_Witness == idr_last = [op |-> "realloc", id |-> 1] /\ 0 \in cpucore_idr

C13_FreshDevice ==
    (registered /\ last.op = "register")
    => /\ GetMaxState = num_possible_cpus
       /\ GetCurState = 0
       /\ stop_flag = 0

\* C13 witness: a device registered on a platform with several cores.
C13_Witness ==
    registered /\ last.op = "register" /\ GetMaxState = MaxCores
    /\ MaxCores > 1

\* C14: unregister tears the framework device down, then releases the id,
\* then frees the record; a record's id is outstanding in the allocator
\* for as long as its framework handle exists; unregister(NULL) changes
\* nothing.
C14_UnregisterOrder ==
    /\ [](\A t \in Callers :
            rec[t].cool_dev => (rec[t].alloc /\ rec[t].id \in cpucore_idr))
    /\ [][ \A t \in Callers :
             /\ (call'[t].fn = "unregister" /\ call[t].fn # "unregister")
                   => (pc[t] = "live" /\ ~rec'[t].cool_dev /\ rec'[t].alloc
                       /\ cpucore_idr' = cpucore_idr)
             /\ (call[t].fn = "unregister" /\ pc[t] = "rel_remove"
                 /\ pc'[t] # pc[t])
                   => (~rec[t].cool_dev /\ rec'[t].alloc
                       /\ cpucore_idr' = cpucore_idr \ {rec[t].id})
             /\ (call[t].fn = "unregister" /\ rec[t].alloc /\ ~rec'[t].alloc)
                   => /\ ~rec[t].cool_dev
                      /\ pc[t] = "kfree"
                      /\ \/ rec[t].id \notin cpucore_idr
                         \/ \E u \in Callers \ {t} :
                               (HoldsId(u) \/ PendingId(u))
                               /\ OwnedId(u) = rec[t].id
             /\ (call'[t].fn = "unregister_null" /\ call'[t] # call[t])
                   => UNCHANGED <<cpucore_idr, cooling_cpucore_lock, pc, rec>>
       ]_vars

\* C14 witness: an unregister has released its id and is about to free the
\* record while another device is live.
C14_Witness ==
    \E t \in Callers, u \in Callers :
        /\ call[t].fn = "unregister" /\ pc[t] = "kfree"
        /\ rec[t].id \notin cpucore_idr
        /\ pc[u] = "live"

AllHome == \A t \in Callers : ~InFlight(t)

\* the callers inside the mutex-protected section of set_cur_state
InLatchSection(t) == frame[t].at \in {"check", "set", "unlock", "unlock_ret"}

\* C16: the latch check-and-set of concurrent set_cur_state calls is atomic
\* under the global lock: one caller at a time is in the section, at most
\* one call finds the latch clear and sets it, and a call that finds the
\* latch set returns, releasing the lock, without committing a level and
\* without an actuation request.
C16_LatchSectionAtomic ==
    /\ [](/\ \A t \in Callers :
               InLatchSection(t) => cooling_cpucore_lock = t
          /\ hist.latch_sets <= 1
          /\ hist.latch_sets = 1 => stop_flag = 1)
    /\ [][ \A t \in Callers :
             /\ (frame[t].at = "check" /\ frame'[t].at # "check"
                 /\ stop_flag # 0)
                   => (frame'[t].at = "unlock_ret"
                       /\ UNCHANGED <<cpucore_state, stop_flag, max_cpu_num>>)
             /\ (frame[t].at = "unlock_ret" /\ frame'[t].at # "unlock_ret")
                   => (frame'[t].at = "home" /\ cooling_cpucore_lock' = 0
                       /\ UNCHANGED <<cpucore_state, stop_flag, max_cpu_num>>)
       ]_vars

\* C16 witness: one call has set the latch, and a second call carrying the
\* stop flag, having taken the lock after it, is on the early return.
C16_Witness ==
    \E t \in Callers :
        /\ frame[t].at = "unlock_ret"
        /\ frame[t].fn = "set_cur_state"
        /\ StopRequested(frame[t].state)
        /\ hist.latch_sets = 1
        /\ ~hist.stop_returned

\* C17 (as stated): once a set_cur_state call carrying the stop flag has
\* returned, current_throttle never changes again and no actuation request
\* is issued, calls in flight included.
C17_NothingAfterStopReturned ==
    [][ hist.stop_returned
          => /\ cpucore_state' = cpucore_state
             /\ \A t \in Callers :
                   ~(frame[t].at = "actuate" /\ frame'[t].at = "home") ]_vars

\* C17 (amended): once a call carrying the stop flag has returned the latch
\* is set, and every call that begins after that return takes the early
\* return: it never reaches the commit or the actuation. A call that passed
\* the latch check before the latch was set may still commit and actuate.
C17_LateCallsAreNoOps ==
    /\ hist.stop_returned => stop_flag = 1
    /\ \A t \in Callers :
          frame[t].late
             => frame[t].at \in {"lock", "check", "unlock_ret"}

\* C17 witness: a call carrying the stop flag has returned; a call begun
\* after that is on the early return while a call that was in flight when
\* the latch was set is about to commit.
C17_Witness ==
    \E t \in Callers, u \in Callers :
        /\ hist.stop_returned
        /\ frame[t].late /\ frame[t].at = "unlock_ret"
        /\ ~frame[u].late /\ frame[u].at = "commit"
        /\ frame[u].state # cpucore_state
        /\ Accepts(max_cpu_core_num, frame[u].state)

\* C18: the read-modify-write of current_throttle in notify is not atomic.
\* After k calls of notify(HOT, enter_hot, no bound) on a fresh device
\* (level L = 0, L + k < max_throttle), all begun and all returned, the
\* level is anywhere from L + 1 to L + k: updates can be lost, and are not
\* when the calls do not overlap.
C18_NotifyUpdatesCanBeLost ==
    (hist.pure /\ hist.k >= 1 /\ AllHome /\ hist.k < GetMaxState)
    => /\ 1 <= GetCurState /\ GetCurState <= hist.k
       /\ ~hist.overlap => GetCurState = hist.k

\* C18 witness: the lost update: two concurrent notify(HOT, enter_hot)
\* calls, no bound, L = 0, L + 2 < max_throttle, both returned, level L + 1.
C18_Witness ==
    /\ hist.pure /\ hist.k = 2 /\ AllHome /\ hist.overlap
    /\ 0 + 2 < GetMaxState
    /\ GetCurState = 0 + 1

\* C19 (as stated): whenever no call is in flight and an actuation request
\* has been issued, the argument of the latest request is
\* max_throttle - current_throttle, overlapping calls included.
C19_ActuationMatchesLevel ==
    (AllHome /\ max_cpu_num # NoCall)
    => max_cpu_num = GetMaxState - GetCurState

\* C19 (amended): the same, for histories in which no call began while
\* another was in flight.
C19_ActuationMatchesLevelSequential ==
    (AllHome /\ max_cpu_num # NoCall /\ ~hist.overlap)
    => max_cpu_num = GetMaxState - GetCurState

\* C19 witness: calls made one after the other, the latest actuation being
\* a request for fewer cores than the platform has.
C19_Witness ==
    /\ AllHome /\ ~hist.overlap /\ max_cpu_num # NoCall
    /\ GetCurState > 0 /\ max_cpu_num = GetMaxState - GetCurState
    /\ max_cpu_num > 0

\* the caller is inside cpucore_cooling_register or _unregister
InLifeCall(t) == pc[t] \notin {"idle", "live"}

\* C20: under fair scheduling every set_cur_state, notify, get_idr and
\* release_idr call returns; a caller that has returned does not hold the
\* global lock (the early return of set_cur_state included); the lock is
\* not held by the caller that commits and issues the actuation request.
C20_CallsReturnLockReleased ==
    /\ [](\A t \in Callers :
            /\ (AtHome(t) => cooling_cpucore_lock # t)
            /\ (frame[t].at \in {"commit", "actuate"}
                  => cooling_cpucore_lock # t)
            /\ (pc[t] \in {"get_lock", "bind", "rel_lock", "kfree"}
                  => cooling_cpucore_lock # t))
    /\ \A t \in Callers :
          /\ InFlight(t) ~> ~InFlight(t)
          /\ InLifeCall(t) ~> ~InLifeCall(t)

\* C20 witness: a call is on the early return of set_cur_state, holding the
\* lock, while another caller waits for the lock in get_idr.
C20_Witness ==
    \E t \in Callers, u \in Callers :
        /\ frame[t].at = "unlock_ret" /\ cooling_cpucore_lock = t
        /\ pc[u] = "get_lock"

====
